---- MODULE Spec2Model ----
(***************************************************************************)
(* Model of the Imeon Energy integration (custom_components/               *)
(* imeon_energy_api): the HTTP client's fetch/re-login/fallback logic,     *)
(* the coordinator's scan history buffer and the energy sensor's           *)
(* Riemann-sum integrator.                                                 *)
(***************************************************************************)
EXTENDS Integers, Sequences, FiniteSets, TLC

VARIABLES
    scan_history,          \* coordinator._scan_history: list of entries
    known_timestamps,      \* coordinator._known_timestamps: set of int
    last_processed_count,  \* coordinator._last_processed_count
    new_entries,           \* _process_scan_history's local new_entries, last call
    removed,               \* _process_scan_history's local removed, last call
    evicted,               \* observer: integer timestamps evicted before the last call
    ingests,               \* number of _process_scan_history calls so far
    \* ImeonEnergySensor (one energy sensor; energies in W*s, 1 kWh = 3600000)
    added_to_hass,         \* async_added_to_hass has run
    last_state,            \* what async_get_last_state() returned to it
    data,                  \* coordinator.data at the last native_value read
    now,                   \* dt_util.utcnow() at the last native_value read, seconds
    last_update,           \* sensor._last_update (NoTime for None)
    last_power,            \* sensor._last_power, W
    accumulated_energy,    \* sensor._accumulated_energy
    value,                 \* what native_value returned last
    \* ImeonHttpClient, shared by the tasks that call it
    client_created,        \* coordinator._client is not None
    username,              \* client._username
    password,              \* client._password
    lock_owner,            \* the task that holds client._lock, or NoTask
    lock_waiters,          \* the tasks waiting for client._lock, first come first
    call,                  \* per task: the call in progress and where it stands
    \* _normalize_payload, applied to one raw payload
    norm_in,               \* the raw_data it was called with
    norm_out,              \* what it returned
    \* _transform_data's derivation, applied to one payload
    payload,               \* the flat mapping the metrics are derived from
    transformed,           \* the metric set it returned, or the exception
    \* _async_update_data: the coordinator's poll cycle
    cycle                  \* where the cycle stands and what it has fetched

histVars == <<scan_history, known_timestamps, last_processed_count,
              new_entries, removed, evicted, ingests>>

sensorVars == <<added_to_hass, last_state, data, now, last_update, last_power,
                accumulated_energy, value>>

clientVars == <<client_created, username, password, lock_owner, lock_waiters, call>>

normVars == <<norm_in, norm_out>>

deriveVars == <<payload, transformed>>

cycleVars == <<cycle>>

vars == <<histVars, sensorVars, clientVars, normVars, deriveVars, cycleVars>>

(***************************************************************************)
(* Scan history buffer (coordinator.py, _process_scan_history)             *)
(***************************************************************************)

\* Capacity of the history: "if len(self._scan_history) > 100".
HISTORY_LIMIT == 100

\* Bounds of the explored inputs.
MaxIngests == 4     \* calls of _process_scan_history in one behaviour
BulkLen == 99       \* entries of the one large scan response
BulkBase == 10      \* the large response carries timestamps BulkBase+1 ..

\* A scan entry as the device sends it.  kind "num": `timestamp` is an int or
\* a float, v is its value in half seconds (v = 3 is 1.5 s).  kind "time":
\* `timestamp` is a string and `time` parses, v is the parsed second.  kind
\* "now": no usable timestamp, v is the reading of datetime.now() in seconds
\* when the entry is processed.  kind "notdict": the element is not a dict.
NumEntry(v) == [kind |-> "num", v |-> v]
TimeEntry(v) == [kind |-> "time", v |-> v]
NowEntry(v) == [kind |-> "now", v |-> v]
NotDict == [kind |-> "notdict", v |-> 0]

\* int(x) of a value given in half units: truncation toward zero.
IntOfHalves(v) == IF v >= 0 THEN v \div 2 ELSE -((-v) \div 2)

\* The integer Unix timestamp the loop derives for an entry (timestamp_int).
TimestampInt(entry) ==
    IF entry.kind = "num" THEN IntOfHalves(entry.v) ELSE entry.v

\* The entry as stored: the device's fields plus the derived `_timestamp`.
\* p, when the model follows them, holds the entry's other fields.
Stored(entry) ==
    IF "p" \in DOMAIN entry
    THEN [kind |-> entry.kind, v |-> entry.v, ts |-> TimestampInt(entry), p |-> entry.p]
    ELSE [kind |-> entry.kind, v |-> entry.v, ts |-> TimestampInt(entry)]

\* Python truthiness of an int, as in "if timestamp_int and ...".
Truthy(n) == n # 0

\* One iteration of the loop over the response's entries; st is
\* <<new_entries, self._known_timestamps>>.
DedupStep(entry, st) ==
    LET ts == TimestampInt(entry)
    IN  IF entry.kind = "notdict" THEN st
        ELSE IF Truthy(ts) /\ ts \in st[2] THEN st
        ELSE <<Append(st[1], Stored(entry)),
               IF Truthy(ts) THEN st[2] \cup {ts} ELSE st[2]>>

\* The loop over entries[lo..hi], in order.  The range is split in halves
\* and the left half is compared with st so that it is evaluated before the
\* right half starts: the evaluation stays shallow on long responses.
RECURSIVE DedupLoop(_, _, _, _)
DedupLoop(entries, lo, hi, st) ==
    IF lo > hi THEN st
    ELSE IF lo = hi THEN DedupStep(entries[lo], st)
    ELSE LET mid == (lo + hi) \div 2
             left == DedupLoop(entries, lo, mid, st)
         IN  IF left = st THEN DedupLoop(entries, mid + 1, hi, st)
             ELSE DedupLoop(entries, mid + 1, hi, left)

\* list.sort(key=_timestamp, reverse=True): a stable sort, descending; with
\* reverse=True equal keys keep their original relative order.
Newer(a, b) == a.ts > b.ts

SortKeepOrder(s) == s

\* An entry moves ahead of another only when its key is strictly greater, so
\* entries with equal keys stay in insertion order.
SortDesc(s) == SortSeq(s, Newer)

\* self._scan_history[:-100] and self._scan_history[-100:].
AllButLast(s, n) == IF Len(s) > n THEN SubSeq(s, 1, Len(s) - n) ELSE <<>>

LastNKeepAll(s, n) == s

LastN(s, n) == IF Len(s) > n THEN SubSeq(s, Len(s) - n + 1, Len(s)) ELSE s

Max(a, b) == IF a >= b THEN a ELSE b

Range(s) == {s[i] : i \in 1..Len(s)}

\* "for entry in removed: ... self._known_timestamps.discard(ts_int)", where
\* ts_int = int(entry["_timestamp"].timestamp()) is the stored second again.
DiscardNothing(known, rem) == known

DiscardRemoved(known, rem) == known \ {e.ts : e \in Range(rem)}

\* _process_scan_history for a response whose `val` is the list `entries`
\* (a response that is no dict, or whose `val` is missing, empty or no list,
\* returns at once: entries = <<>>).
ProcessScanHistory(entries) ==
    IF entries = <<>>
    THEN /\ UNCHANGED <<scan_history, known_timestamps, last_processed_count>>
         /\ new_entries' = <<>>
         /\ removed' = <<>>
    ELSE LET loop == DedupLoop(entries, 1, Len(entries), <<<<>>, known_timestamps>>)
             extended == scan_history \o loop[1]
             over == Len(extended) > HISTORY_LIMIT
             rem == IF over THEN AllButLast(extended, HISTORY_LIMIT) ELSE <<>>
         IN  /\ scan_history' =
                    SortDesc(IF over THEN LastN(extended, HISTORY_LIMIT) ELSE extended)
             /\ known_timestamps' =
                    IF over THEN DiscardRemoved(loop[2], rem) ELSE loop[2]
             /\ last_processed_count' =
                    IF over THEN Max(0, last_processed_count - Len(rem))
                    ELSE last_processed_count
             /\ new_entries' = loop[1]
             /\ removed' = rem

\* _get_latest_scan_entry: the head of the history, or None.
None == [kind |-> "none", v |-> 0, ts |-> 0]
GetLatestScanEntry == IF scan_history = <<>> THEN None ELSE scan_history[1]

\* Inputs: the timestamps single entries may carry.
FreeEntries ==
    { NumEntry(0), NumEntry(1), NumEntry(6), TimeEntry(3),
      NumEntry(400), NumEntry(402), NumEntry(403), NowEntry(200), NotDict }

BulkBatch == [i \in 1..BulkLen |-> NumEntry(2 * (BulkBase + i))]

Batches == {<<e>> : e \in FreeEntries} \cup {BulkBatch, <<>>}

(***************************************************************************)
(* Energy sensor (sensor.py, ImeonEnergySensor)                            *)
(***************************************************************************)

\* One kWh and one Wh in the unit of the energies, W*s.
KWH == 3600000
WH == 3600

\* Bound: ticks stop once the integrated total has passed MaxKWh kWh.
MaxKWh == 2

\* None for a time.
NoTime == -1

\* Inputs: clock readings (seconds), powers (W), directly reported energies
\* and restored states.  The clock is the wall clock: it may step back.
Times == {0, 1800, 3600}
Powers == {-1000, 0, 1000}
Energies == {0, 2 * KWH}

\* coordinator.data as the sensor reads it: nothing (None or {}), or a
\* metric set in which the sensor's power key and energy key may be missing.
NoData == [present |-> FALSE, has_power |-> FALSE, power |-> 0,
           has_energy |-> FALSE, energy |-> 0]
MetricSet(hp, p, he, e) ==
    [present |-> TRUE, has_power |-> hp, power |-> p, has_energy |-> he, energy |-> e]
DataInputs ==
    {NoData}
    \cup {MetricSet(TRUE, p, TRUE, e) : p \in Powers, e \in Energies}
    \cup {MetricSet(TRUE, p, FALSE, 0) : p \in Powers}
    \cup {MetricSet(FALSE, 0, TRUE, e) : e \in Energies}

\* The state RestoreEntity hands back: none, a state string that is not a
\* number ("unknown", "unavailable", anything float() rejects), or a number.
NoState == [kind |-> "none", v |-> 0]
NotRestored == [kind |-> "not restored", v |-> 0]
RestoredStates ==
    {NoState, [kind |-> "unknown", v |-> 0], [kind |-> "unavailable", v |-> 0],
     [kind |-> "text", v |-> 0], [kind |-> "number", v |-> KWH],
     [kind |-> "number", v |-> 0 - KWH]}

\* A value native_value returns: None or a number.
NoValue == [none |-> TRUE, v |-> 0]
Num(v) == [none |-> FALSE, v |-> v]

\* round(x, 3) of an energy in kWh: to the nearest Wh, ties to even.
Round3(x) ==
    LET q == x \div WH
        r == x % WH
    IN  IF 2 * r < WH THEN q * WH
        ELSE IF 2 * r > WH THEN (q + 1) * WH
        ELSE IF q % 2 = 0 THEN q * WH ELSE (q + 1) * WH

\* data.get(self._power_key, 0.0)
PowerOf(d) == IF d.has_power THEN d.power ELSE 0

\* (power / 1000.0) * time_diff, with time_diff in hours: kWh, here W*s.
EnergyIncrementTrapezoid(power, t, last) == ((power + last_power) * (t - last)) \div 2

EnergyIncrement(power, t, last) == power * (t - last)

\* "if energy_increment > 0: self._accumulated_energy += energy_increment"
AccumulateAlways(acc, inc) == acc + inc

Accumulate(acc, inc) == IF inc > 0 THEN acc + inc ELSE acc

\* "energy_key in data and data[energy_key] > 0" (every energy sensor has
\* an energy key in energy_mapping)
DirectEnergyIfPresent(d) == d.has_energy

DirectEnergy(d) == d.has_energy /\ d.energy > 0

\* Lines 161-166: the total after the restored state s was looked at.
\* float(s.state) is tried unless s is None, "unknown" or "unavailable",
\* and ValueError is passed over.
SeedIgnored(s, acc) == acc

Seed(s, acc) == IF s.kind = "number" THEN s.v ELSE acc

\* async_added_to_hass: seed the total from the restored state.
AddedToHass ==
    /\ UNCHANGED <<histVars, clientVars, normVars, deriveVars, cycleVars>>
    /\ ~added_to_hass
    /\ added_to_hass' = TRUE
    /\ \E s \in RestoredStates :
           /\ last_state' = s
           /\ accumulated_energy' = Seed(s, accumulated_energy)
    /\ UNCHANGED <<data, now, last_update, last_power, value>>

\* native_value, read with coordinator.data = d when the clock shows t.
NativeValue(d, t) ==
    /\ data' = d
    /\ now' = t
    /\ IF ~d.present
       THEN /\ value' = NoValue
            /\ UNCHANGED <<last_update, last_power, accumulated_energy>>
       ELSE IF DirectEnergy(d)
       THEN /\ value' = Num(d.energy)
            /\ UNCHANGED <<last_update, last_power, accumulated_energy>>
       ELSE LET power == PowerOf(d)
                acc == IF last_update # NoTime
                       THEN Accumulate(accumulated_energy,
                                       EnergyIncrement(power, t, last_update))
                       ELSE accumulated_energy
            IN  /\ accumulated_energy' = acc
                /\ last_update' = t
                /\ last_power' = power
                /\ value' = Num(Round3(acc))

Tick ==
    /\ UNCHANGED <<histVars, clientVars, normVars, deriveVars, cycleVars>>
    /\ added_to_hass
    /\ accumulated_energy <= MaxKWh * KWH
    /\ UNCHANGED <<added_to_hass, last_state>>
    /\ \E d \in DataInputs, t \in Times : NativeValue(d, t)

InitSensor ==
    /\ added_to_hass = FALSE
    /\ last_state = NotRestored
    /\ data = NoData
    /\ now = NoTime
    /\ last_update = NoTime
    /\ last_power = 0
    /\ accumulated_energy = 0
    /\ value = NoValue

(***************************************************************************)
(* HTTP client (client.py, ImeonHttpClient)                                *)
(***************************************************************************)

\* Bound: the tasks that use the one client concurrently.
NumTasks == 2

Tasks == 1..NumTasks
NoTask == 0

\* Credentials: None, or a string (possibly empty).
NoString == "None"
CtorCredentials ==
    {<<NoString, NoString>>, <<"user", "">>, <<"installer@local", "Installer_P4SS">>}
LoginArguments == {<<"installer@local", "Installer_P4SS">>}

InfoTypes == {"data", "scan", "status"}

\* What the device answers to one request: a transport failure (ClientError,
\* timeout), or a status, a content type that is JSON or not, and a body
\* that decodes as JSON or not.
TransportFailure == [fail |-> TRUE, status |-> 0, json |-> FALSE, decodes |-> FALSE]
Response(st, js, dec) == [fail |-> FALSE, status |-> st, json |-> js, decodes |-> dec]
Responses ==
    {TransportFailure}
    \cup {Response(st, TRUE, dec) : st \in {200, 401}, dec \in BOOLEAN}
    \cup {Response(st, FALSE, FALSE) : st \in {200, 401}}
NoResponse == [fail |-> FALSE, status |-> 0, json |-> FALSE, decodes |-> FALSE]

\* A task's call.  op: idle, login (a caller's login) or fetch
\* (get_data_instant).  pc: lock_wait (waiting for self._lock), post (the
\* login POST is in flight), get (the GET of the endpoint is in flight),
\* fallback (the GET of the fallback is in flight), done.  frames: 1 in the
\* top-level get_data_instant, 2 in the retry it awaits.  relogins, gets,
\* fallbacks count the requests of this call.  first_nonjson, retry_nonjson:
\* the first GET, the retry GET, were answered 200 with a non-JSON type.
\* creds_known: what "self._username and self._password" gave when the
\* top-level frame looked.  ret: the response whose body was returned.
IdleCall ==
    [op |-> "idle", pc |-> "idle", kind |-> "-", allow_retry |-> TRUE, frames |-> 0,
     user |-> NoString, pass |-> NoString,
     relogins |-> 0, gets |-> 0, fallbacks |-> 0,
     first_nonjson |-> FALSE, retry_nonjson |-> FALSE, creds_known |-> "-",
     result |-> "-", ret |-> NoResponse]

\* Python truthiness of an optional string.
TruthyString(x) == x # NoString /\ x # ""

\* "self._username and self._password"
CredentialsKnown == TruthyString(username) /\ TruthyString(password)

\* _instant_urls: only "data" has a fallback URL.
HasFallbackAlways(info_type) == TRUE

HasFallback(info_type) == info_type = "data"

\* "if info_type == "data" and fallback:" after a non-JSON answer that is
\* not retried.
TriesFallbackAnyKind(info_type) == TRUE

TriesFallback(info_type) == info_type = "data" /\ HasFallback(info_type)

\* The handler of "except ValueError" around the retry, in the frame that
\* was called with allow_retry: whether it tries the fallback.
ExceptTriesFallbackAnyway(info_type, allow_retry) ==
    info_type = "data" /\ HasFallback(info_type)

ExceptTriesFallback(info_type, allow_retry) ==
    info_type = "data" /\ HasFallback(info_type) /\ allow_retry = FALSE

\* asyncio.Lock.acquire returns at once only if the lock is free and nobody
\* waits for it.
LockNeverHeld == TRUE

LockFree == lock_owner = NoTask /\ lock_waiters = <<>>

\* "async with self._lock" entered by task t, whose call becomes c: it goes
\* on to the POST, or waits.
AcquireLock(t, c) ==
    IF LockFree
    THEN /\ lock_owner' = t
         /\ lock_waiters' = lock_waiters
         /\ call' = [call EXCEPT ![t] = [c EXCEPT !.pc = "post"]]
    ELSE /\ lock_owner' = lock_owner
         /\ lock_waiters' = Append(lock_waiters, t)
         /\ call' = [call EXCEPT ![t] = [c EXCEPT !.pc = "lock_wait"]]

\* Leaving "async with self._lock": the first waiter, if any, gets the lock.
ReleaseLock ==
    IF lock_waiters = <<>>
    THEN lock_owner' = NoTask /\ lock_waiters' = lock_waiters
    ELSE lock_owner' = Head(lock_waiters) /\ lock_waiters' = Tail(lock_waiters)

\* The call ends: it returns the body of response r (result "data") or
\* raises.
Finished(c, result, r) == [c EXCEPT !.pc = "done", !.result = result, !.ret = r]

\* The GET of the fallback URL is sent (_fetch_fallback) from a frame of c.
FetchFallback(c, frames) ==
    [c EXCEPT !.pc = "fallback", !.frames = frames, !.fallbacks = c.fallbacks + 1]

\* A ValueError raised in get_data_instant or below it.  In the retry
\* (frames = 2) it reaches the top-level frame's "except ValueError", which
\* was entered with allow_retry = True; in the top-level frame it leaves
\* the call.
RaiseValueError(c, err) ==
    IF c.frames = 2 /\ ExceptTriesFallback(c.kind, TRUE)
    THEN FetchFallback(c, 1)
    ELSE Finished(c, err, NoResponse)

\* login(username, password) called by a task.
StartLogin(t) ==
    /\ UNCHANGED <<histVars, sensorVars, normVars, deriveVars, cycleVars>>
    /\ client_created
    /\ call[t].pc = "idle"
    /\ \E a \in LoginArguments :
           AcquireLock(t, [IdleCall EXCEPT !.op = "login", !.user = a[1], !.pass = a[2]])
    /\ UNCHANGED <<client_created, username, password>>

\* get_data_instant(info_type) called by a task: the GET is sent.
StartFetch(t) ==
    /\ UNCHANGED <<histVars, sensorVars, normVars, deriveVars, cycleVars>>
    /\ client_created
    /\ call[t].pc = "idle"
    /\ \E k \in InfoTypes :
           call' = [call EXCEPT ![t] =
                       [IdleCall EXCEPT !.op = "fetch", !.pc = "get", !.kind = k,
                                        !.allow_retry = TRUE, !.frames = 1, !.gets = 1]]
    /\ UNCHANGED <<client_created, username, password, lock_owner, lock_waiters>>

\* A waiting task got the lock: its POST is sent.
LockGranted(t) ==
    /\ UNCHANGED <<histVars, sensorVars, normVars, deriveVars, cycleVars>>
    /\ call[t].pc = "lock_wait"
    /\ lock_owner = t
    /\ call' = [call EXCEPT ![t].pc = "post"]
    /\ UNCHANGED <<client_created, username, password, lock_owner, lock_waiters>>

\* How login ends on response r.
LoginOutcomeIgnoresStatus(r) ==
    IF r.fail THEN "ClientError"
    ELSE IF ~r.json THEN "LoginTypeError"
    ELSE IF ~r.decodes THEN "DecodeError"
    ELSE "data"

LoginOutcome(r) ==
    IF r.fail THEN "ClientError"
    ELSE IF r.status # 200 THEN "LoginStatusError"
    ELSE IF ~r.json THEN "LoginTypeError"
    ELSE IF ~r.decodes THEN "DecodeError"
    ELSE "data"

\* The answer to the login POST arrives: the rest of login, and what the
\* caller does next.
LoginResponse(t) ==
    /\ UNCHANGED <<histVars, sensorVars, normVars, deriveVars, cycleVars>>
    /\ call[t].pc = "post"
    /\ \E r \in Responses :
        LET c == call[t]
            outcome == LoginOutcome(r)
        IN  /\ IF outcome = "data"
               THEN username' = c.user /\ password' = c.pass
               ELSE UNCHANGED <<username, password>>
            /\ UNCHANGED client_created
            /\ ReleaseLock
            /\ call' = [call EXCEPT ![t] =
                   IF c.op = "login" THEN Finished(c, outcome, IF outcome = "data" THEN r ELSE NoResponse)
                   ELSE IF outcome = "data"
                   THEN \* "return await self.get_data_instant(info_type, allow_retry=False)"
                        [c EXCEPT !.pc = "get", !.allow_retry = FALSE, !.frames = 2,
                                  !.gets = c.gets + 1]
                   ELSE Finished(c, outcome, NoResponse)]

\* The answer to the GET of the endpoint arrives.
GetResponse(t) ==
    /\ UNCHANGED <<histVars, sensorVars, normVars, deriveVars, cycleVars>>
    /\ call[t].pc = "get"
    /\ \E r \in Responses :
        LET c == call[t]
            seen == IF c.frames = 1 THEN [c EXCEPT !.first_nonjson = TRUE]
                    ELSE [c EXCEPT !.retry_nonjson = TRUE]
        IN  IF r.fail
            THEN /\ call' = [call EXCEPT ![t] = Finished(c, "ClientError", NoResponse)]
                 /\ UNCHANGED <<client_created, username, password, lock_owner, lock_waiters>>
            ELSE IF r.status # 200
            THEN /\ call' = [call EXCEPT ![t] = RaiseValueError(c, "StatusError")]
                 /\ UNCHANGED <<client_created, username, password, lock_owner, lock_waiters>>
            ELSE IF r.json
            THEN /\ call' = [call EXCEPT ![t] =
                        IF r.decodes THEN Finished(c, "data", r)
                        ELSE RaiseValueError(c, "DecodeError")]
                 /\ UNCHANGED <<client_created, username, password, lock_owner, lock_waiters>>
            ELSE IF c.allow_retry /\ CredentialsKnown
            THEN \* "await self.login(self._username, self._password)"
                 /\ AcquireLock(t, [seen EXCEPT !.user = username, !.pass = password,
                                                !.relogins = c.relogins + 1,
                                                !.creds_known = "yes"])
                 /\ UNCHANGED <<client_created, username, password>>
            ELSE /\ call' = [call EXCEPT ![t] =
                        LET s2 == IF c.allow_retry THEN [seen EXCEPT !.creds_known = "no"]
                                  ELSE seen
                        IN  IF TriesFallback(s2.kind)
                            THEN FetchFallback(s2, s2.frames)
                            ELSE RaiseValueError(s2, "UnexpectedResponseType")]
                 /\ UNCHANGED <<client_created, username, password, lock_owner, lock_waiters>>

\* The answer to the GET of the fallback arrives (_fetch_fallback: the
\* status is not looked at).
FallbackResponse(t) ==
    /\ UNCHANGED <<histVars, sensorVars, normVars, deriveVars, cycleVars>>
    /\ call[t].pc = "fallback"
    /\ \E r \in Responses :
        LET c == call[t]
        IN  call' = [call EXCEPT ![t] =
                IF r.fail THEN Finished(c, "ClientError", NoResponse)
                ELSE IF ~r.json THEN RaiseValueError(c, "FallbackError")
                ELSE IF r.decodes THEN Finished(c, "data", r)
                ELSE RaiseValueError(c, "DecodeError")]
    /\ UNCHANGED <<client_created, username, password, lock_owner, lock_waiters>>

\* The caller has its result; the task may call again.
Return(t) ==
    /\ UNCHANGED <<histVars, sensorVars, normVars, deriveVars, cycleVars>>
    /\ call[t].pc = "done"
    /\ call' = [call EXCEPT ![t] = IdleCall]
    /\ UNCHANGED <<client_created, username, password, lock_owner, lock_waiters>>

\* ImeonHttpClient(host, session, username=..., password=...): the
\* coordinator builds its client on first use.
CreateClient ==
    /\ UNCHANGED <<histVars, sensorVars, normVars, deriveVars, cycleVars>>
    /\ ~client_created
    /\ client_created' = TRUE
    /\ \E a \in CtorCredentials : username' = a[1] /\ password' = a[2]
    /\ UNCHANGED <<lock_owner, lock_waiters, call>>

InitClient ==
    /\ client_created = FALSE
    /\ username = NoString
    /\ password = NoString
    /\ lock_owner = NoTask
    /\ lock_waiters = <<>>
    /\ call = [t \in Tasks |-> IdleCall]

(***************************************************************************)
(* Payload normalizer (coordinator.py, _normalize_payload)                 *)
(***************************************************************************)

\* Bound: how many wrappers (list, `result` string, `data`, `payload`,
\* `val`) the explored payloads nest around a leaf.
MaxWraps == 3

\* A JSON value as Python holds it.  A str is described by what
\* json.loads makes of its text: it decodes to the value `json`, or it is
\* not valid JSON (ok = FALSE).  A dict's d is a function from keys to
\* values, a list's l a sequence of values.
JNull == [t |-> "null"]
JNum(n) == [t |-> "num", n |-> n]
JStr(ok, v) == [t |-> "str", ok |-> ok, json |-> v]
JList(l) == [t |-> "list", l |-> l]
JDict(d) == [t |-> "dict", d |-> d]

IsDict(x) == x.t = "dict"
IsList(x) == x.t = "list"
IsStr(x) == x.t = "str"

EmptyDict == JDict([k \in {} |-> JNull])
EmptyList == JList(<<>>)
Malformed == JStr(FALSE, JNull)

\* An exception leaving the function.
Raised == [t |-> "raised"]

\* json.loads(s): the decoded value, or a JSONDecodeError.
JsonLoads(s) == IF s.ok THEN [raised |-> FALSE, v |-> s.json]
                ELSE [raised |-> TRUE, v |-> JNull]

\* "x[0] if isinstance(x, list) and x else x"
FirstOrSelf(x) == IF IsList(x) /\ x.l # <<>> THEN x.l[1] ELSE x

\* "except Exception: pass": data stays the outer value.
DecodeFailedRaises(x) == Raised

DecodeFailed(x) == x

\* Lines 177-183: a dict whose `result` is a str is replaced by the decoded
\* value, or by the decoded list's first element.
DecodeStep(x) ==
    IF IsDict(x) /\ "result" \in DOMAIN x.d /\ IsStr(x.d.result)
    THEN LET decoded == JsonLoads(x.d.result)
         IN  IF decoded.raised THEN DecodeFailed(x) ELSE FirstOrSelf(decoded.v)
    ELSE x

\* Lines 185-186: "if isinstance(data, list) and data: data = data[0]".
FirstElementStep(x) == FirstOrSelf(x)

\* "key in data and isinstance(data[key], (dict, list))"
HoldsContainer(x, key) ==
    key \in DOMAIN x.d /\ (IsDict(x.d[key]) \/ IsList(x.d[key]))

\* Lines 188-193: the first of `data`, `payload` that holds a dict or a list
\* is unwrapped one level.
UnwrapStep(x) ==
    IF ~IsDict(x) THEN x
    ELSE IF HoldsContainer(x, "data") THEN FirstOrSelf(x.d["data"])
    ELSE IF HoldsContainer(x, "payload") THEN FirstOrSelf(x.d["payload"])
    ELSE x

\* Line 195: "return data if isinstance(data, dict) else {}".
ReturnMapping(x) == IF IsDict(x) THEN x ELSE EmptyDict

\* _normalize_payload(raw_data)
NormalizePayload(raw_data) ==
    LET decoded == DecodeStep(raw_data)
    IN  IF decoded = Raised THEN Raised
        ELSE ReturnMapping(UnwrapStep(FirstElementStep(decoded)))

\* Inputs: leaves (a scalar, a str that is not JSON, empty containers, a
\* flat mapping) under up to MaxWraps wrappers.
FlatSample == JDict([em_power |-> JNum(500)])
OtherSample == JDict([battery_soc |-> JNum(80)])
Leaves == {JNum(7), Malformed, EmptyList, EmptyDict, FlatSample}

Wrappers(v) ==
    { JList(<<v>>), JList(<<v, OtherSample>>),
      JDict([result |-> JStr(TRUE, v)]),
      JDict([result |-> Malformed, data |-> v]),
      JDict([data |-> v]), JDict([payload |-> v]), JDict([val |-> v]) }

RECURSIVE Wrapped(_)
Wrapped(n) ==
    IF n = 0 THEN Leaves
    ELSE LET inner == Wrapped(n - 1)
         IN  inner \cup UNION {Wrappers(v) : v \in inner}

RawPayloads == Wrapped(MaxWraps)

\* No call yet.
NoPayload == [t |-> "none"]

\* One call of _normalize_payload.
Normalize ==
    /\ UNCHANGED <<histVars, sensorVars, clientVars, deriveVars, cycleVars>>
    /\ norm_in = NoPayload
    /\ \E raw_data \in RawPayloads :
           /\ norm_in' = raw_data
           /\ norm_out' = NormalizePayload(raw_data)

InitNormalize ==
    /\ norm_in = NoPayload
    /\ norm_out = NoPayload

(***************************************************************************)
(* Metric deriver (coordinator.py, _transform_data and its helpers)        *)
(***************************************************************************)

\* sensor_config.py: the device's field names.
API_FIELD_GRID_POWER == "em_power"
API_FIELD_BATTERY_CHARGING == "ac_input_total_active_power"
API_FIELD_BATTERY_DISCHARGING == "ac_output_total_active_power"
API_FIELD_BATTERY_SOC == "battery_soc"
API_FIELD_PV_INPUTS == <<"pv_input_power1", "pv_input_power2", "pv_input_power3">>

\* Python truthiness of a JSON value (every str of the model is non-empty).
Falsy(x) ==
    \/ x.t = "null"
    \/ x.t = "num" /\ x.n = 0
    \/ x.t = "list" /\ x.l = <<>>
    \/ x.t = "dict" /\ DOMAIN x.d = {}

\* The result of an expression that may raise: the number v, or raised.
Value(v) == [raised |-> FALSE, v |-> v]
Raises == [raised |-> TRUE, v |-> 0]

\* float(x): a number is kept (powers are whole W here), a str converts if
\* its text is a number; a str that is no number raises ValueError, None, a
\* list or a dict raise TypeError.
Float(x) ==
    IF x.t = "num" THEN Value(x.n)
    ELSE IF x.t = "str" /\ x.ok /\ x.json.t = "num" THEN Value(x.json.n)
    ELSE Raises

\* p.get(key): None when the key is absent.
Get(p, key) == IF key \in DOMAIN p.d THEN p.d[key] ELSE JNull

\* "float(p.get(key) or 0.0)"
FloatOrZero(x) == IF Falsy(x) THEN Value(0) ELSE Float(x)

\* _sum_pv_inputs, one key of API_FIELD_PV_INPUTS: what it adds to total.
\* "except (ValueError, TypeError): pass" adds nothing.
PvInput(p, key) ==
    LET val == Get(p, key)
    IN  IF val # JNull /\ ~Float(val).raised THEN Float(val).v ELSE 0

\* _sum_pv_inputs followed by "float(... or 0.0)": the total when a PV
\* input was found, 0.0 when it returned None.
SumPvInputs(p) ==
    PvInput(p, API_FIELD_PV_INPUTS[1]) + PvInput(p, API_FIELD_PV_INPUTS[2])
        + PvInput(p, API_FIELD_PV_INPUTS[3])

\* "a or b" of two values.
Or(a, b) == IF Falsy(a) THEN b ELSE a

\* _estimate_battery_power: None (found = FALSE) or current * voltage.
NotEstimated == [found |-> FALSE, v |-> 0]
EstimateBatteryPower(p) ==
    LET current == Get(p, "battery_current")
        voltage == Or(Get(p, "p_battery_voltage"), Get(p, "battery_voltage"))
    IN  IF current = JNull \/ voltage = JNull THEN NotEstimated
        ELSE IF Float(current).raised \/ Float(voltage).raised THEN NotEstimated
        ELSE [found |-> TRUE, v |-> Float(current).v * Float(voltage).v]

Abs(n) == IF n < 0 THEN 0 - n ELSE n

\* Lines 126-141: battery_power with battery_charging and
\* battery_discharging, or the exception float() raised.
Battery(power, charging, discharging) ==
    [raised |-> FALSE, power |-> power, charging |-> charging,
     discharging |-> discharging]
BatteryRaises == [raised |-> TRUE, power |-> 0, charging |-> 0, discharging |-> 0]

BatteryPower(p) ==
    IF API_FIELD_BATTERY_CHARGING \in DOMAIN p.d
          \/ API_FIELD_BATTERY_DISCHARGING \in DOMAIN p.d
    THEN LET battery_charging == FloatOrZero(Get(p, API_FIELD_BATTERY_CHARGING))
             battery_discharging == FloatOrZero(Get(p, API_FIELD_BATTERY_DISCHARGING))
         IN  IF battery_charging.raised \/ battery_discharging.raised
             THEN BatteryRaises
             ELSE Battery(battery_discharging.v - battery_charging.v,
                          battery_charging.v, battery_discharging.v)
    ELSE LET estimated == EstimateBatteryPower(p)
         IN  IF estimated.found
             THEN Battery(estimated.v,
                          IF estimated.v > 0 THEN estimated.v ELSE 0,
                          IF estimated.v < 0 THEN Abs(estimated.v) ELSE 0)
             ELSE Battery(0, 0, 0)

\* Lines 160-165: the split of grid_power.
GridConsumption(grid_power) == IF grid_power > 0 THEN grid_power ELSE 0

GridReturnSigned(grid_power) == IF grid_power > 0 THEN 0 ELSE grid_power

GridReturn(grid_power) == IF grid_power > 0 THEN 0 ELSE Abs(grid_power)

\* Lines 152-156: the energy fields of the metric set are placeholders.
EnergyPlaceholderReported == 2 * KWH

EnergyPlaceholder == 0

\* Lines 121-171 of _transform_data: the metric set derived from the
\* payload p, or the exception that leaves the function.
DeriveMetrics(p) ==
    LET grid_power == FloatOrZero(Get(p, API_FIELD_GRID_POWER))
        solar_power == SumPvInputs(p)
        battery == BatteryPower(p)
        battery_soc == FloatOrZero(Get(p, API_FIELD_BATTERY_SOC))
    IN  IF grid_power.raised \/ battery.raised \/ battery_soc.raised THEN Raised
        ELSE [t |-> "metrics",
              grid_power |-> grid_power.v,
              solar_power |-> solar_power,
              battery_power |-> battery.power,
              home_power |-> grid_power.v + solar_power + battery.power,
              battery_soc |-> battery_soc.v,
              grid_energy_import |-> EnergyPlaceholder,
              grid_energy_export |-> EnergyPlaceholder,
              solar_energy |-> EnergyPlaceholder,
              battery_energy_charged |-> EnergyPlaceholder,
              battery_energy_discharged |-> EnergyPlaceholder,
              grid_consumption_power |-> GridConsumption(grid_power.v),
              grid_return_power |-> GridReturn(grid_power.v),
              battery_charging_power |-> battery.charging,
              battery_discharging_power |-> battery.discharging]

\* Inputs: flat samples in which each field is absent or takes one of a
\* few values (numbers, 0, a str that is no number).
Absent == [t |-> "absent"]

Sample(full) ==
    JDict([k \in {f \in DOMAIN full : full[f] # Absent} |-> full[k]])

Samples ==
    { Sample([em_power |-> g, pv_input_power1 |-> p1, pv_input_power2 |-> p2,
              ac_input_total_active_power |-> ci,
              ac_output_total_active_power |-> co,
              battery_power |-> bp, battery_current |-> bc,
              p_battery_voltage |-> pv, battery_voltage |-> bv,
              battery_soc |-> soc]) :
        g \in {Absent, JNum(0 - 150), JNum(500), Malformed},
        p1 \in {Absent, JNum(200), Malformed},
        p2 \in {Absent, JNum(100)},
        ci \in {Absent, JNum(0), JNum(500)},
        co \in {Absent, JNum(300)},
        bp \in {Absent, JNum(700)},
        bc \in {Absent, JNum(10), JNum(0 - 10)},
        pv \in {Absent, JNum(0), JNum(50)},
        bv \in {Absent, JNum(48)},
        soc \in {Absent, JNum(80)} }

\* One derivation.
Derive ==
    /\ UNCHANGED <<histVars, sensorVars, clientVars, normVars, cycleVars>>
    /\ payload = NoPayload
    /\ \E p \in Samples :
           /\ payload' = p
           /\ transformed' = DeriveMetrics(p)

InitDerive ==
    /\ payload = NoPayload
    /\ transformed = NoPayload

(***************************************************************************)
(* Poll cycle (coordinator.py, _async_update_data)                         *)
(***************************************************************************)

\* Bound: the poll cycles of one behaviour.
MaxCycles == 2

\* The credentials the coordinator was configured with.
ConfiguredCredentials == <<"installer@local", "Installer_P4SS">>

\* What datetime.now() reads, in seconds, while an entry without a numeric
\* timestamp is processed.
Clock == 300

\* UpdateFailed raised by _async_update_data.
UpdateFailed == [t |-> "UpdateFailed"]

\* The cycle.  pc: idle, connect (_ensure_client_connected is next),
\* primary, scan, monitor (that fetch is next), process
\* (_process_scan_history and _transform_data are next), record
\* (_record_historical_values is next), done.  attempt: 1 in the try block,
\* 2 in the except block.  failures: why the failed attempts of this cycle
\* failed.  logins, requests: the login calls and the requests of this
\* attempt.  reconnects: the calls with force_reconnect=True in this cycle.
\* data: coordinator.data, the result of the last cycle that returned.
IdleCycle ==
    [pc |-> "idle", cycles |-> 0, attempt |-> 0, failures |-> <<>>,
     logins |-> 0, reconnects |-> 0, requests |-> <<>>,
     primary |-> NoPayload, scan |-> NoPayload, monitor |-> NoPayload,
     scan_failed |-> FALSE, monitor_failed |-> FALSE,
     transformed |-> NoPayload, result |-> NoPayload, data |-> NoPayload]

\* An attempt starts: the try block (n = 1) or the except block (n = 2).
BeginAttempt(c, n) ==
    [c EXCEPT !.pc = "connect", !.attempt = n, !.logins = 0, !.requests = <<>>,
              !.primary = NoPayload, !.scan = NoPayload, !.monitor = NoPayload,
              !.scan_failed = FALSE, !.monitor_failed = FALSE,
              !.transformed = NoPayload]

\* An exception leaves the attempt: "except Exception as err" starts the
\* second attempt, "except Exception as err2" raises UpdateFailed.
AttemptFailedRetries(c, cause) ==
    LET failed == [c EXCEPT !.failures = Append(c.failures, cause)]
    IN  IF c.attempt <= 2 THEN BeginAttempt(failed, c.attempt + 1)
        ELSE [failed EXCEPT !.pc = "done", !.result = UpdateFailed]

AttemptFailed(c, cause) ==
    LET failed == [c EXCEPT !.failures = Append(c.failures, cause)]
    IN  IF c.attempt = 1 THEN BeginAttempt(failed, 2)
        ELSE [failed EXCEPT !.pc = "done", !.result = UpdateFailed]

\* A request of this attempt.
Requested(c, what) == [c EXCEPT !.requests = Append(c.requests, what)]

\* The host's timer starts a cycle.
StartCycle ==
    /\ UNCHANGED <<histVars, sensorVars, clientVars, normVars, deriveVars>>
    /\ cycle.pc = "idle"
    /\ cycle.cycles < MaxCycles
    /\ cycle' = BeginAttempt([IdleCycle EXCEPT !.cycles = cycle.cycles + 1,
                                               !.data = cycle.data], 1)

\* _ensure_client_connected(force_reconnect = (attempt = 2)): a client is
\* built if there is none or on force_reconnect, then login is called; ok
\* is whether login returned.
EnsureClientConnectedOnlyWhenBuilt ==
    /\ UNCHANGED <<histVars, sensorVars, normVars, deriveVars>>
    /\ cycle.pc = "connect"
    /\ \E ok \in BOOLEAN :
        LET force_reconnect == cycle.attempt = 2
            build == ~client_created \/ force_reconnect
            c == [Requested(cycle, "login") EXCEPT
                     !.logins = cycle.logins + 1,
                     !.reconnects = cycle.reconnects + IF force_reconnect THEN 1 ELSE 0]
        IN  /\ client_created' = TRUE
            /\ IF build
               THEN /\ username' = ConfiguredCredentials[1]
                    /\ password' = ConfiguredCredentials[2]
               ELSE UNCHANGED <<username, password>>
            /\ cycle' = IF ~build THEN [cycle EXCEPT !.pc = "primary"]
                         ELSE IF ok THEN [c EXCEPT !.pc = "primary"]
                         ELSE AttemptFailed(c, "login")
    /\ UNCHANGED <<lock_owner, lock_waiters, call>>

EnsureClientConnected ==
    /\ UNCHANGED <<histVars, sensorVars, normVars, deriveVars>>
    /\ cycle.pc = "connect"
    /\ \E ok \in BOOLEAN :
        LET force_reconnect == cycle.attempt = 2
            build == ~client_created \/ force_reconnect
            c == [Requested(cycle, "login") EXCEPT
                     !.logins = cycle.logins + 1,
                     !.reconnects = cycle.reconnects + IF force_reconnect THEN 1 ELSE 0]
        IN  /\ client_created' = TRUE
            /\ IF build \/ ok
               THEN /\ username' = ConfiguredCredentials[1]
                    /\ password' = ConfiguredCredentials[2]
               ELSE UNCHANGED <<username, password>>
            /\ cycle' = IF ok THEN [c EXCEPT !.pc = "primary"]
                         ELSE AttemptFailed(c, "login")
    /\ UNCHANGED <<lock_owner, lock_waiters, call>>

\* Inputs: what get_data_instant("data") and get_data_instant("scan")
\* return when they return.
PrimaryPayloads ==
    { JDict([em_power |-> JNum(500), pv_input_power1 |-> JNum(200)]),
      JDict([em_power |-> Malformed]) }

ScanEntry(timestamp, grid) == JDict([timestamp |-> JNum(timestamp), em_power |-> grid])

ScanResponses ==
    { JDict([val |-> JList(<<ScanEntry(100, JNum(0 - 150))>>)]),
      JDict([val |-> JList(<<ScanEntry(200, Malformed)>>)]),
      JDict([val |-> JList(<<ScanEntry(300, JNum(250))>>)]),
      JDict([val |-> EmptyList]) }

\* "primary = await self._client.get_data_instant("data")": an exception
\* fails the attempt.
FetchPrimary ==
    /\ UNCHANGED <<histVars, sensorVars, clientVars, normVars, deriveVars>>
    /\ cycle.pc = "primary"
    /\ \E r \in {Raised} \cup PrimaryPayloads :
        LET c == Requested(cycle, "data")
        IN  cycle' = IF r = Raised THEN AttemptFailed(c, "primary")
                     ELSE [c EXCEPT !.pc = "scan", !.primary = r]

\* "except Exception as scan_err": scan stays {}.
OnScanErrorRaises(c) == AttemptFailed(c, "scan")

OnScanError(c) == [c EXCEPT !.pc = "monitor", !.scan = EmptyDict, !.scan_failed = TRUE]

\* "scan = await self._client.get_data_instant("scan")" in its try block.
FetchScan ==
    /\ UNCHANGED <<histVars, sensorVars, clientVars, normVars, deriveVars>>
    /\ cycle.pc = "scan"
    /\ \E r \in {Raised} \cup ScanResponses :
        LET c == Requested(cycle, "scan")
        IN  cycle' = IF r = Raised THEN OnScanError(c)
                     ELSE [c EXCEPT !.pc = "monitor", !.scan = r]

\* "except Exception as monitor_err": monitor stays {}.
OnMonitorError(c) ==
    [c EXCEPT !.pc = "process", !.monitor = EmptyDict, !.monitor_failed = TRUE]

\* "monitor = await self._client.get_monitor("hour")" in its try block.
FetchMonitor ==
    /\ UNCHANGED <<histVars, sensorVars, clientVars, normVars, deriveVars>>
    /\ cycle.pc = "monitor"
    /\ \E r \in {Raised, JDict([result |-> EmptyList])} :
        LET c == Requested(cycle, "monitor")
        IN  cycle' = IF r = Raised THEN OnMonitorError(c)
                     ELSE [c EXCEPT !.pc = "process", !.monitor = r]

\* A scan entry of the response as _process_scan_history reads it: its
\* timestamp decides the kind, its fields travel in p.
EntryOf(j) ==
    IF ~IsDict(j) THEN NotDict
    ELSE LET timestamp == Get(j, "timestamp")
             e == IF timestamp.t = "num" THEN NumEntry(2 * timestamp.n)
                  ELSE NowEntry(Clock)
         IN  [kind |-> e.kind, v |-> e.v, p |-> j]

\* "scan_entries = scan_data.get("val", [])", or nothing to process.
ScanEntries(scan_data) ==
    IF IsDict(scan_data) /\ "val" \in DOMAIN scan_data.d /\ IsList(scan_data.d.val)
    THEN LET l == scan_data.d.val.l
         IN  SubSeq([i \in 1..Len(l) |-> EntryOf(l[i])], 1, Len(l))
    ELSE <<>>

\* "{**payload_data, **payload_scan}"
MergeDicts(a, b) ==
    JDict([k \in DOMAIN a.d \cup DOMAIN b.d |->
              IF k \in DOMAIN b.d THEN b.d[k] ELSE a.d[k]])

\* _transform_data({"data": primary, "scan": scan, ...}) when
\* _get_latest_scan_entry() is scan_entry: lines 111-119 choose the
\* payload, the rest derives the metrics from it.
TransformDataMerged(primary, scan, scan_entry) ==
    DeriveMetrics(MergeDicts(NormalizePayload(primary), NormalizePayload(scan)))

TransformData(primary, scan, scan_entry) ==
    IF scan_entry = None
    THEN DeriveMetrics(MergeDicts(NormalizePayload(primary), NormalizePayload(scan)))
    ELSE DeriveMetrics(scan_entry.p)

\* "self._process_scan_history(scan)" and "self._transform_data(...)".
Process ==
    /\ UNCHANGED <<sensorVars, clientVars, normVars, deriveVars>>
    /\ cycle.pc = "process"
    /\ ProcessScanHistory(ScanEntries(cycle.scan))
    /\ evicted' = evicted \cup {e.ts : e \in Range(removed)}
    /\ ingests' = ingests + 1
    /\ LET scan_entry == IF scan_history' = <<>> THEN None ELSE scan_history'[1]
           result == TransformData(cycle.primary, cycle.scan, scan_entry)
       IN  cycle' = IF result = Raised THEN AttemptFailed(cycle, "derive")
                    ELSE [cycle EXCEPT !.pc = "record", !.transformed = result]

\* "self._record_historical_values(transformed)" and "return transformed".
Record ==
    /\ UNCHANGED <<sensorVars, clientVars, normVars, deriveVars>>
    /\ cycle.pc = "record"
    /\ last_processed_count' =
           IF scan_history # <<>> /\ Len(scan_history) - last_processed_count > 0
           THEN Len(scan_history) ELSE last_processed_count
    /\ UNCHANGED <<scan_history, known_timestamps, new_entries, removed, evicted, ingests>>
    /\ cycle' = [cycle EXCEPT !.pc = "done", !.result = cycle.transformed]

\* The host has the cycle's outcome: the update coordinator keeps a
\* returned metric set as coordinator.data, and keeps the data it had when
\* UpdateFailed was raised.
Ended(c) ==
    [c EXCEPT !.pc = "idle",
              !.data = IF c.result = UpdateFailed THEN c.data ELSE c.result]

EndCycle ==
    /\ UNCHANGED <<histVars, sensorVars, clientVars, normVars, deriveVars>>
    /\ cycle.pc = "done"
    /\ cycle' = Ended(cycle)

InitCycle == cycle = IdleCycle

(***************************************************************************)
(* Coordinator and energy sensor together (sensor.py, async_setup_entry)   *)
(***************************************************************************)

\* The five energy sensors: the power they integrate and the energy field
\* they look for in the metric set (energy_mapping).
EnergySensor(sensor_id, power_key, energy_key) ==
    [sensor_id |-> sensor_id, power_key |-> power_key, energy_key |-> energy_key]
EnergySensors ==
    { EnergySensor("grid_consumption", "grid_consumption_power", "grid_energy_import"),
      EnergySensor("grid_return", "grid_return_power", "grid_energy_export"),
      EnergySensor("solar_production", "solar_power", "solar_energy"),
      EnergySensor("battery_charging", "battery_charging_power",
                   "battery_energy_charged"),
      EnergySensor("battery_discharging", "battery_discharging_power",
                   "battery_energy_discharged") }

\* coordinator.data as sensor s reads it: its power key and its energy key
\* in the metric set m.
SensorView(m, s) ==
    MetricSet(s.power_key \in DOMAIN m, m[s.power_key],
              s.energy_key \in DOMAIN m, m[s.energy_key])

\* The clock of the host when the listeners of cycle c are told: the
\* refreshes are one update interval apart, 1800 s here.
ReadTime(c) == 1800 * c.cycles

\* The sensors are set up once the first refresh has returned
\* (__init__.py, async_config_entry_first_refresh before the platforms),
\* between two cycles.
SetupSensor ==
    /\ cycle.pc = "idle"
    /\ cycle.data # NoPayload
    /\ AddedToHass

\* The state of the sensor just added is written: its first read of
\* native_value, with the data of the first refresh.
FirstRead ==
    /\ UNCHANGED <<histVars, clientVars, normVars, deriveVars, cycleVars>>
    /\ cycle.pc = "idle"
    /\ added_to_hass
    /\ now = NoTime
    /\ UNCHANGED <<added_to_hass, last_state>>
    /\ \E s \in EnergySensors :
           NativeValue(SensorView(cycle.data, s), ReadTime(cycle))

\* The cycle ends and the coordinator tells its listeners: a sensor that
\* has been added reads native_value with coordinator.data.  The one
\* integrator of the model stands for any of the five sensors.
Publish ==
    /\ UNCHANGED <<histVars, clientVars, normVars, deriveVars>>
    /\ cycle.pc = "done"
    /\ cycle' = Ended(cycle)
    /\ IF added_to_hass
       THEN /\ UNCHANGED <<added_to_hass, last_state>>
            /\ \E s \in EnergySensors :
                   NativeValue(SensorView(cycle'.data, s), ReadTime(cycle))
       ELSE UNCHANGED sensorVars

(***************************************************************************)
(* Specifications                                                          *)
(***************************************************************************)

Ingest ==
    /\ ingests < MaxIngests
    /\ \E batch \in Batches : ProcessScanHistory(batch)
    /\ evicted' = evicted \cup {e.ts : e \in Range(removed)}
    /\ ingests' = ingests + 1
    /\ UNCHANGED <<sensorVars, clientVars, normVars, deriveVars, cycleVars>>

InitHistory ==
    /\ scan_history = <<>>
    /\ known_timestamps = {}
    /\ last_processed_count = 0
    /\ new_entries = <<>>
    /\ removed = <<>>
    /\ evicted = {}
    /\ ingests = 0

\* The state after construction of the coordinator, its client and a sensor.
Init ==
    InitHistory /\ InitSensor /\ InitClient /\ InitNormalize /\ InitDerive /\ InitCycle

\* The scan history buffer alone.
NextHistory == Ingest

SpecHistory == Init /\ [][NextHistory]_vars

\* One energy sensor alone.
NextSensor == AddedToHass \/ Tick

SpecSensor == Init /\ [][NextSensor]_vars

\* The client alone, used by NumTasks concurrent tasks.
NextClient ==
    \/ CreateClient
    \/ \E t \in Tasks :
        \/ StartLogin(t)
        \/ StartFetch(t)
        \/ LockGranted(t)
        \/ LoginResponse(t)
        \/ GetResponse(t)
        \/ FallbackResponse(t)
        \/ Return(t)

SpecClient == Init /\ [][NextClient]_vars

\* The normalizer alone, applied to one payload.
NextNormalize == Normalize

SpecNormalize == Init /\ [][NextNormalize]_vars

\* The deriver alone, applied to one sample.
NextDerive == Derive

SpecDerive == Init /\ [][NextDerive]_vars

\* The poll cycles of one coordinator, one at a time.
CycleStep ==
    \/ EnsureClientConnected
    \/ FetchPrimary
    \/ FetchScan
    \/ FetchMonitor
    \/ Process
    \/ Record
    \/ EndCycle

NextCycle == StartCycle \/ CycleStep

SpecCycle == Init /\ [][NextCycle]_vars

\* Every await of a cycle returns or raises (each request has a timeout),
\* so a cycle that has started keeps taking steps.
SpecCycleFair == SpecCycle /\ WF_vars(CycleStep)

\* The coordinator with an energy sensor that listens to it.
NextSystem ==
    \/ StartCycle
    \/ EnsureClientConnected
    \/ FetchPrimary
    \/ FetchScan
    \/ FetchMonitor
    \/ Process
    \/ Record
    \/ Publish
    \/ SetupSensor
    \/ FirstRead

SpecSystem == Init /\ [][NextSystem]_vars

(***************************************************************************)
(* Scan history: properties                                                *)
(***************************************************************************)

HistoryTimestamps == {e.ts : e \in Range(scan_history)}

\* C4: no two entries of the history share the same integer Unix timestamp,
\* for every numeric timestamp value (ingesting the same entry twice leaves
\* one entry).  The code's "if timestamp_int and ..." skips the check for
\* timestamp 0, so this is violated.
C4_UniqueTimestamps ==
    \A i, j \in 1..Len(scan_history) :
        i # j => scan_history[i].ts # scan_history[j].ts

\* C5: every entry evicted by an ingest is older than (or as old as) every
\* entry the history retains.  The code cuts the head of the list, which
\* holds the most recent entries of the previous history, before it sorts.
C5_EvictsOldest ==
    \A e \in Range(removed) : \A r \in Range(scan_history) : e.ts <= r.ts

\* C6: the scan history never holds more than 100 entries.
C6_Capacity == Len(scan_history) <= HISTORY_LIMIT

\* C6 witness: an ingest found the list over capacity and cut it back to 100.
C6_Witness == removed # <<>> /\ Len(scan_history) = HISTORY_LIMIT

\* C7: the history is sorted by descending timestamp after every batch, and
\* _get_latest_scan_entry returns the head, which carries the greatest
\* timestamp held, or None when the history is empty.
C7_SortedLatest ==
    /\ \A i \in 1..Len(scan_history) - 1 :
           scan_history[i].ts >= scan_history[i + 1].ts
    /\ scan_history = <<>> => GetLatestScanEntry = None
    /\ scan_history # <<>> =>
           /\ GetLatestScanEntry \in Range(scan_history)
           /\ \A e \in Range(scan_history) : GetLatestScanEntry.ts >= e.ts

\* C7 witness: the last batch appended, at the tail, an entry newer than
\* those already held, and the sort moved it to the head.
C7_Witness ==
    /\ Len(scan_history) > Len(new_entries)
    /\ new_entries # <<>>
    /\ GetLatestScanEntry = new_entries[1]
    /\ GetLatestScanEntry.ts > scan_history[2].ts

\* C8: after an ingest that evicts, the dedup set holds none of the evicted
\* timestamps and still holds every timestamp of a retained entry that the
\* set tracks (a non-zero one); an entry that arrives with a timestamp
\* evicted earlier is therefore in the history after its ingest.
C8_DedupConsistent ==
    /\ \A e \in Range(removed) : e.ts \notin known_timestamps
    /\ \A e \in Range(scan_history) : Truthy(e.ts) => e.ts \in known_timestamps
    /\ \A t \in known_timestamps : t \in HistoryTimestamps
    /\ \A e \in Range(new_entries) : e \in Range(scan_history) \/ e \in Range(removed)

\* C8 witness: an entry whose timestamp an earlier ingest evicted arrived
\* again and is in the history.
C8_Witness ==
    \E e \in Range(new_entries) :
        /\ Truthy(e.ts)
        /\ e.ts \in evicted
        /\ e \in Range(scan_history)

(***************************************************************************)
(* Energy sensor: properties                                               *)
(***************************************************************************)

\* C9: a tick never decreases accumulated_energy, whatever the sign of the
\* power and of the elapsed time: it adds the increment when the increment
\* is strictly positive and leaves the total alone otherwise.
C9_NeverDecreases ==
    [][added_to_hass =>
         /\ accumulated_energy' >= accumulated_energy
         /\ \/ accumulated_energy' = accumulated_energy
            \/ /\ last_update # NoTime
               /\ EnergyIncrement(PowerOf(data'), now', last_update) > 0
               /\ accumulated_energy' = accumulated_energy
                      + EnergyIncrement(PowerOf(data'), now', last_update)]_vars

\* C9 witness: a tick with negative power after some time had passed and
\* energy had been accumulated: its negative increment was dropped.
C9_Witness ==
    /\ last_power < 0
    /\ last_update = now
    /\ now > 0
    /\ accumulated_energy > 0
    /\ value = Num(Round3(accumulated_energy))

\* C10: every tick (a read of native_value with data) sets last_update to
\* the tick's time and last_power to the tick's power, also when a directly
\* reported energy bypasses the integration.  The bypass returns before the
\* two assignments, so this is violated.
C10_TickSetsLastUpdate ==
    (now # NoTime /\ data.present) =>
        (last_update = now /\ last_power = PowerOf(data))

\* C11: on a tick whose metric set carries a directly reported energy
\* greater than zero for the sensor's metric, native_value returns that
\* value and the integrated total is left alone; when the direct value is
\* absent or not greater than zero, the integrated total (rounded to the
\* Wh) is returned.
C11_DirectEnergyBypass ==
    [][(added_to_hass /\ data'.present) =>
          IF data'.has_energy /\ data'.energy > 0
          THEN /\ value' = Num(data'.energy)
               /\ accumulated_energy' = accumulated_energy
          ELSE value' = Num(Round3(accumulated_energy'))]_vars

\* C11 witness: a tick with positive power, some time after the previous
\* integration, returned the directly reported energy, which is not the
\* integrated total.
C11_Witness ==
    /\ data.present /\ data.has_energy /\ data.energy > 0
    /\ data.has_power /\ data.power > 0
    /\ last_update # NoTime /\ now > last_update
    /\ accumulated_energy > 0
    /\ accumulated_energy # data.energy
    /\ value = Num(data.energy)

\* C25: the integrator is seeded once, when the sensor is added: the
\* total, 0 until then, becomes the restored state's number if that state
\* exists and is numeric, and stays 0 if it is missing, "unknown",
\* "unavailable" or not a number; from then on the sensor is not seeded
\* again and the total changes only in a tick that integrates.
C25_SeededOnce ==
    [][/\ (~added_to_hass /\ added_to_hass') =>
              /\ accumulated_energy = 0
              /\ last_state' \in RestoredStates
              /\ accumulated_energy' =
                     IF last_state'.kind = "number" THEN last_state'.v ELSE 0
       /\ added_to_hass =>
              /\ added_to_hass'
              /\ last_state' = last_state
              /\ accumulated_energy' # accumulated_energy =>
                     /\ data'.present
                     /\ ~(data'.has_energy /\ data'.energy > 0)
                     /\ last_update' = now']_vars

\* C25 witness: the total was seeded with the restored 1 kWh and ticks
\* have added to it since.
C25_Witness ==
    /\ added_to_hass
    /\ last_state = [kind |-> "number", v |-> KWH]
    /\ last_update # NoTime
    /\ accumulated_energy > KWH

\* The step is a tick that integrates: native_value read a metric set and
\* did not return a directly reported energy.
Integrates ==
    /\ added_to_hass
    /\ <<data, now, last_update, last_power, accumulated_energy, value>>'
           # <<data, now, last_update, last_power, accumulated_energy, value>>
    /\ data'.present
    /\ ~(data'.has_energy /\ data'.energy > 0)

\* C26: the first integrating tick adds nothing to the total; a later one
\* adds the power of this tick times the time since last_update,
\* (W / 1000) x (s / 3600) kWh, when that is positive (and nothing
\* otherwise, C9); the power of the previous tick does not enter.  A tick
\* with 1000 W, 3600 s after last_update, adds exactly 1 kWh.
C26_RiemannIncrement ==
    [][Integrates =>
          /\ last_update = NoTime => accumulated_energy' = accumulated_energy
          /\ last_update # NoTime =>
                 accumulated_energy' = accumulated_energy
                     + Max(PowerOf(data') * (now' - last_update), 0)
          /\ (last_update # NoTime /\ PowerOf(data') = 1000
                 /\ now' - last_update = 3600) =>
                 accumulated_energy' = accumulated_energy + KWH]_vars

\* C26 witness: starting from 0, a tick at 3600 s with 1000 W, whatever the
\* power of the earlier tick, has brought the total to exactly 1 kWh.
C26_Witness ==
    /\ last_state.kind # "number"
    /\ now = 3600
    /\ last_update = 3600
    /\ data.present /\ data.has_power /\ data.power = 1000
    /\ accumulated_energy = KWH
    /\ value = Num(KWH)

\* C31: the value the sensor reports never decreases from one tick to the
\* next, whatever metric sets it reads, with or without a directly
\* reported energy.  A tick that returns a direct energy above the
\* integrated total is followed by a lower value as soon as a tick has no
\* direct energy, so this is violated.
C31_ReportedNeverDecreases ==
    [][(added_to_hass /\ ~value.none /\ ~value'.none) =>
          value'.v >= value.v]_vars

(***************************************************************************)
(* Payload normalizer: properties                                          *)
(***************************************************************************)

\* norm_in is a mapping whose `result` is a str that is not valid JSON.
MalformedResult ==
    /\ IsDict(norm_in)
    /\ "result" \in DOMAIN norm_in.d
    /\ IsStr(norm_in.d.result)
    /\ ~norm_in.d.result.ok

\* C14: normalize is total: whatever the shape of the input it returns a
\* mapping and never raises; a scalar, a str or an empty container gives
\* the empty mapping; and when a mapping's `result` is a str that is not
\* valid JSON the outcome is that of the remaining steps applied to the
\* outer mapping.
C14_NormalizeTotal ==
    norm_in # NoPayload =>
        /\ norm_out # Raised
        /\ IsDict(norm_out)
        /\ norm_in \in {JNum(7), Malformed, EmptyList, EmptyDict} => norm_out = EmptyDict
        /\ MalformedResult =>
               norm_out = ReturnMapping(UnwrapStep(FirstElementStep(norm_in)))

\* C14 witness: a mapping with a malformed `result` next to a `data`
\* wrapper was normalized to the wrapped sample.
C14_Witness ==
    /\ norm_in = JDict([result |-> Malformed, data |-> JList(<<FlatSample>>)])
    /\ norm_out = FlatSample

\* C15: for a payload {"result": s} where s encodes the JSON value v,
\* normalize gives what normalize(v) gives.  The code takes the first
\* element of a decoded list and then applies the list step again, and it
\* does not decode a `result` inside the decoded value, so this is
\* violated for a nested array and for an object with a string `result`.
C15_ResultStringEquivalent ==
    (/\ IsDict(norm_in)
     /\ DOMAIN norm_in.d = {"result"}
     /\ IsStr(norm_in.d.result)
     /\ norm_in.d.result.ok) =>
        norm_out = NormalizePayload(norm_in.d.result.json)

\* C16: for a non-empty sequence xs, normalize(xs) is normalize(xs[0]).
\* The code applies neither the decode step nor the list step to the first
\* element, so this is violated when xs[0] has a string `result` or is a
\* sequence itself.
C16_FirstElementEquivalent ==
    (IsList(norm_in) /\ norm_in.l # <<>>) =>
        norm_out = NormalizePayload(norm_in.l[1])

\* C17: a mapping whose `val` is a non-empty sequence starting with a plain
\* mapping m is normalized to m.  The code has no step for `val`: it
\* returns the outer wrapper.
C17_ValUnwrapped ==
    (/\ IsDict(norm_in)
     /\ "val" \in DOMAIN norm_in.d
     /\ IsList(norm_in.d.val)
     /\ norm_in.d.val.l # <<>>
     /\ IsDict(norm_in.d.val.l[1])
     /\ DOMAIN norm_in.d.val.l[1].d \cap {"result", "data", "payload", "val"} = {}) =>
        norm_out = norm_in.d.val.l[1]

(***************************************************************************)
(* Metric deriver: properties                                              *)
(***************************************************************************)

\* The number a field of the derived-from sample holds, 0 when absent.
NumberAt(key) == IF key \in DOMAIN payload.d THEN payload.d[key].n ELSE 0

\* C18: for a sample with ac_input_total_active_power = g,
\* ac_output_total_active_power = h, numeric PV inputs, battery_soc = s and
\* no battery fields, the metric set has grid_power = g, home_power = h,
\* solar_power = the sum of the PV inputs, battery_soc = s,
\* grid_consumption_power = max(g, 0) and grid_return_power = max(-g, 0).
\* The code reads grid_power from em_power and takes the two AC fields as
\* battery charge and discharge, so this is violated.
C18_DeriveFromAcFields ==
    (/\ payload # NoPayload
     /\ {API_FIELD_BATTERY_CHARGING, API_FIELD_BATTERY_DISCHARGING,
         API_FIELD_BATTERY_SOC} \subseteq DOMAIN payload.d
     /\ DOMAIN payload.d \cap {API_FIELD_GRID_POWER, "battery_power", "battery_current",
                               "p_battery_voltage", "battery_voltage"} = {}
     /\ \A k \in DOMAIN payload.d : payload.d[k].t = "num") =>
        /\ transformed.t = "metrics"
        /\ transformed.grid_power = NumberAt(API_FIELD_BATTERY_CHARGING)
        /\ transformed.home_power = NumberAt(API_FIELD_BATTERY_DISCHARGING)
        /\ transformed.solar_power =
               NumberAt("pv_input_power1") + NumberAt("pv_input_power2")
                   + NumberAt("pv_input_power3")
        /\ transformed.battery_soc = NumberAt(API_FIELD_BATTERY_SOC)
        /\ transformed.grid_consumption_power =
               Max(NumberAt(API_FIELD_BATTERY_CHARGING), 0)
        /\ transformed.grid_return_power =
               Max(0 - NumberAt(API_FIELD_BATTERY_CHARGING), 0)

\* C19: every metric set has grid_consumption_power = max(grid_power, 0)
\* and grid_return_power = max(-grid_power, 0), whatever the sign of
\* grid_power.
C19_GridSplit ==
    transformed.t = "metrics" =>
        /\ transformed.grid_consumption_power = Max(transformed.grid_power, 0)
        /\ transformed.grid_return_power = Max(0 - transformed.grid_power, 0)

\* C19 witness: grid_power = -150 (export) gave consumption 0, return 150.
C19_Witness ==
    /\ transformed.t = "metrics"
    /\ transformed.grid_power = 0 - 150
    /\ transformed.grid_consumption_power = 0
    /\ transformed.grid_return_power = 150

\* C20: every metric set splits battery_power under one convention,
\* positive = discharging: battery_discharging_power = max(battery_power, 0)
\* and battery_charging_power = max(-battery_power, 0), so at most one of
\* the two is non-zero.  The code reports the two AC fields as they are,
\* and splits an estimated power with positive = charging, so this is
\* violated on both paths.
C20_BatterySplitUniform ==
    transformed.t = "metrics" =>
        /\ transformed.battery_discharging_power = Max(transformed.battery_power, 0)
        /\ transformed.battery_charging_power = Max(0 - transformed.battery_power, 0)
        /\ transformed.battery_discharging_power = 0
               \/ transformed.battery_charging_power = 0

\* The derived-from sample holds only numbers.
AllNumeric == \A k \in DOMAIN payload.d : payload.d[k].t = "num"

\* The voltage aliases the derived-from sample holds.
PresentVoltages == DOMAIN payload.d \cap {"p_battery_voltage", "battery_voltage"}

\* C21: for a sample of numbers, battery_power is discharge minus charge
\* if either AC field is present; else the direct battery_power field if
\* present; else battery_current times a present voltage field if the
\* current and a voltage are present; else 0.  The code never reads a
\* direct battery_power field, so this is violated.
C21_BatteryResolutionOrder ==
    (payload # NoPayload /\ AllNumeric) =>
        /\ transformed.t = "metrics"
        /\ IF DOMAIN payload.d \cap {API_FIELD_BATTERY_CHARGING,
                                     API_FIELD_BATTERY_DISCHARGING} # {}
           THEN transformed.battery_power =
                    NumberAt(API_FIELD_BATTERY_DISCHARGING)
                        - NumberAt(API_FIELD_BATTERY_CHARGING)
           ELSE IF "battery_power" \in DOMAIN payload.d
           THEN transformed.battery_power = NumberAt("battery_power")
           ELSE IF "battery_current" \in DOMAIN payload.d /\ PresentVoltages # {}
           THEN \E k \in PresentVoltages :
                    transformed.battery_power =
                        NumberAt("battery_current") * NumberAt(k)
           ELSE transformed.battery_power = 0

(***************************************************************************)
(* Poll cycle: properties                                                  *)
(***************************************************************************)

\* The cycle has raised UpdateFailed.
CycleFailed == cycle.pc \in {"done", "idle"} /\ cycle.result = UpdateFailed

\* A failed fetch of /scan or of the monitor leaves {} for that endpoint
\* and the attempt goes on.
OptionalFetchesTolerated ==
    /\ cycle.scan_failed => cycle.scan = EmptyDict
    /\ cycle.monitor_failed => cycle.monitor = EmptyDict
    /\ \A i \in 1..Len(cycle.failures) : cycle.failures[i] \notin {"scan", "monitor"}

\* C12 as claimed: a failed /scan or monitor fetch is no data for that
\* endpoint and never fails the cycle, and a cycle fails only if the
\* primary /data fetch fails.
C12_FailsOnlyOnPrimary ==
    /\ OptionalFetchesTolerated
    /\ CycleFailed => \E i \in 1..Len(cycle.failures) : cycle.failures[i] = "primary"

\* C12 as amended: a failed /scan or monitor fetch is no data for that
\* endpoint and never fails the attempt; an attempt fails only if its
\* login, its primary /data fetch or the derivation of the metrics raises,
\* and the cycle fails only if both attempts fail.
C12_FailsOnlyOnHardSteps ==
    /\ OptionalFetchesTolerated
    /\ \A i \in 1..Len(cycle.failures) :
           cycle.failures[i] \in {"login", "primary", "derive"}
    /\ CycleFailed => Len(cycle.failures) = 2

\* C12 witness: a cycle returned a metric set from an attempt in which
\* both the /scan fetch and the monitor fetch had failed.
C12_Witness ==
    /\ cycle.pc = "done"
    /\ cycle.result # UpdateFailed
    /\ cycle.result.t = "metrics"
    /\ cycle.scan_failed
    /\ cycle.monitor_failed

\* The bookkeeping of attempts.
TwoAttempts ==
    /\ cycle.attempt <= 2
    /\ Len(cycle.failures) = IF CycleFailed THEN 2
                              ELSE IF cycle.attempt = 2 THEN 1 ELSE 0
    /\ cycle.reconnects = IF cycle.attempt = 2 /\ cycle.pc # "connect" THEN 1 ELSE 0
    /\ (cycle.attempt = 2 /\ cycle.pc # "connect") => cycle.logins = 1
    /\ (cycle.pc = "done" /\ ~CycleFailed) =>
           /\ cycle.result = cycle.transformed
           /\ cycle.result.t = "metrics"

\* C13: a poll cycle ends after at most two attempts: the second is made
\* only after the first failed, with one forced rebuild of the client and
\* one login; UpdateFailed is raised exactly when the second attempt fails
\* too, and otherwise the metric set of the last attempt is returned.
C13_AtMostTwoAttempts ==
    /\ []TwoAttempts
    /\ (cycle.pc # "idle") ~> (cycle.pc = "done")

\* C13 witness: the first attempt failed and the second returned a metric
\* set.
C13_Witness ==
    /\ cycle.pc = "done"
    /\ cycle.attempt = 2
    /\ Len(cycle.failures) = 1
    /\ cycle.reconnects = 1
    /\ cycle.result.t = "metrics"

\* C22: the voltage aliases resolve first-present-wins: for a sample of
\* numbers on the estimate path (no AC field, no direct battery_power) that
\* holds battery_current and p_battery_voltage, battery_power is
\* battery_current times p_battery_voltage, also when p_battery_voltage is
\* 0 and battery_voltage is present.  The code joins the aliases with "or",
\* which skips a zero, so this is violated.
C22_FirstPresentWins ==
    (/\ payload # NoPayload
     /\ AllNumeric
     /\ DOMAIN payload.d \cap {API_FIELD_BATTERY_CHARGING, API_FIELD_BATTERY_DISCHARGING,
                               "battery_power"} = {}
     /\ {"battery_current", "p_battery_voltage"} \subseteq DOMAIN payload.d) =>
        /\ transformed.t = "metrics"
        /\ transformed.battery_power =
               NumberAt("battery_current") * NumberAt("p_battery_voltage")

\* A sample without the fields whose value float() cannot convert.
Coercible(p) == JDict([k \in {f \in DOMAIN p.d : ~Float(p.d[f]).raised} |-> p.d[k]])

\* C23: the derivation never fails, and a field whose value cannot be cast
\* to a number behaves as if it were absent: the metric set is the one of
\* the sample without such fields.  float() of a non-numeric em_power is
\* not caught in the code, so this is violated.
C23_NonCoercibleAsAbsent ==
    payload # NoPayload =>
        /\ transformed.t = "metrics"
        /\ transformed = DeriveMetrics(Coercible(payload))

\* The step is the processing of an attempt that goes on to return a
\* metric set.
Returns == cycle.pc = "process" /\ cycle'.pc = "record"

\* C27 as claimed: when the history the attempt found is not empty, the
\* metric set is derived from the head of that history, so that cycles
\* that start from the same history return the same metric set whether
\* their /scan fetch failed or not.  A /scan answer with a newer entry
\* changes the head before the metrics are derived, so this is violated.
C27_FunctionOfStartingHead ==
    [][(Returns /\ scan_history # <<>>) =>
          cycle'.transformed = DeriveMetrics(scan_history[1].p)]_vars

\* C27 as amended: the metric set is derived from the head of the
\* history as it is once this attempt's /scan answer has been processed,
\* and from nothing else when that history is not empty: not from the
\* /data payload, the monitor payload or the /scan answer as such.  An
\* attempt whose /scan fetch failed leaves the history as it was, so its
\* metrics are those of the stale head.  The merged /data and /scan
\* normalization is used only while the history is empty.
C27_FunctionOfHead ==
    [][/\ Returns =>
              /\ cycle'.transformed =
                     IF scan_history' # <<>>
                     THEN DeriveMetrics(scan_history'[1].p)
                     ELSE DeriveMetrics(MergeDicts(NormalizePayload(cycle.primary),
                                                  NormalizePayload(cycle.scan)))
              /\ cycle'.transformed # Raised
       /\ (cycle.pc = "process" /\ cycle.scan_failed) =>
              scan_history' = scan_history]_vars

\* C27 witness: the second cycle's /scan fetch failed and its /data
\* payload reports 500 W from the grid, but the cycle returned the -150 W
\* of the entry the first cycle had stored.
C27_Witness ==
    /\ cycle.cycles = 2
    /\ cycle.pc = "done"
    /\ cycle.scan_failed
    /\ Get(cycle.primary, API_FIELD_GRID_POWER) = JNum(500)
    /\ scan_history # <<>>
    /\ Get(scan_history[1].p, API_FIELD_GRID_POWER) = JNum(0 - 150)
    /\ cycle.result # UpdateFailed
    /\ cycle.result.grid_power = 0 - 150

\* The attempt is past _ensure_client_connected.
Connected == cycle.pc \in {"primary", "scan", "monitor", "process", "record"}

\* C28: in every attempt of every cycle the first request is a login, it
\* is issued once, also when the client of an earlier cycle is reused,
\* and the GETs of /data, /scan and /api/monitor follow it in that order;
\* when the login fails the attempt ends there, with no other request.
C28_LoginFirst ==
    /\ [](/\ Connected =>
               /\ cycle.logins = 1
               /\ cycle.requests # <<>>
               /\ cycle.requests[1] = "login"
          /\ \A i \in 1..Len(cycle.requests) :
                 cycle.requests[i] =
                     <<"login", "data", "scan", "monitor">>[i])
    /\ [][/\ (cycle.pc = "connect" /\ cycle'.pc = "primary") =>
                 cycle'.requests = <<"login">>
          /\ cycle.pc = "connect" =>
                 /\ cycle.requests = <<>>
                 /\ \/ cycle'.pc = "primary"
                    \/ /\ cycle'.failures = Append(cycle.failures, "login")
                       /\ IF cycle.attempt = 1
                          THEN cycle'.pc = "connect" /\ cycle'.attempt = 2
                          ELSE cycle'.pc = "done" /\ cycle'.result = UpdateFailed
                       /\ cycle'.requests \in {<<>>, <<"login">>}]_vars

\* C28 witness: the second cycle reuses the first cycle's client, has
\* logged in again all the same, and has sent its three GETs after that.
C28_Witness ==
    /\ cycle.cycles = 2
    /\ cycle.attempt = 1
    /\ cycle.reconnects = 0
    /\ cycle.failures = <<>>
    /\ cycle.pc = "process"
    /\ cycle.requests = <<"login", "data", "scan", "monitor">>

\* The energy placeholders of a metric set are all 0.
ZeroEnergies(m) ==
    \A s \in EnergySensors : m[s.energy_key] = 0

\* C30: every metric set the coordinator produces has its five energy
\* fields at 0, so a sensor that reads coordinator.data never returns a
\* directly reported energy: every value it returns is its integrated
\* total, rounded.
C30_PlaceholdersNeverBypass ==
    /\ \A m \in {cycle.transformed, cycle.result, cycle.data} :
           (m # NoPayload /\ m # UpdateFailed) => (m.t = "metrics" /\ ZeroEnergies(m))
    /\ data.present =>
           /\ data.has_energy
           /\ data.energy = 0
           /\ ~DirectEnergy(data)
           /\ value = Num(Round3(accumulated_energy))
           /\ last_update = now

\* C30 witness: the sensor read a metric set with positive power some
\* time after its previous read and returned what it has integrated.
C30_Witness ==
    /\ data.present /\ data.has_energy /\ data.energy = 0
    /\ data.power > 0
    /\ accumulated_energy > Seed(last_state, 0)
    /\ value = Num(Round3(accumulated_energy))
    /\ cycle.data # NoPayload

(***************************************************************************)
(* HTTP client: properties                                                 *)
(***************************************************************************)

Fetching == {t \in Tasks : call[t].op = "fetch"}

\* C1: one top-level get_data_instant call logs in again at most once,
\* repeats the GET of its endpoint at most once (and only after that login)
\* and requests the fallback at most once; when the first GET is answered
\* with a non-JSON type and credentials are known, exactly one re-login is
\* attempted, and it precedes any request to the fallback.
C1_AtMostOnce ==
    \A t \in Fetching :
        LET c == call[t]
        IN  /\ c.relogins <= 1
            /\ c.gets <= 2
            /\ c.gets - 1 <= c.relogins
            /\ c.fallbacks <= 1
            /\ (c.first_nonjson /\ c.creds_known = "yes") => c.relogins = 1
            /\ (c.fallbacks > 0 /\ c.creds_known = "yes") =>
                   (c.relogins = 1 /\ c.gets = 2)

\* C1 witness: a call on "data" that went through all of it: non-JSON
\* answer, re-login, retry, fallback, and ended.
C1_Witness ==
    \E t \in Fetching :
        /\ call[t].pc = "done"
        /\ call[t].kind = "data"
        /\ call[t].relogins = 1
        /\ call[t].gets = 2
        /\ call[t].fallbacks = 1

\* The call's last GET of its endpoint was answered 200 with a non-JSON
\* type and nothing was left to retry.
NonJsonUnretried(c) ==
    c.retry_nonjson \/ (c.first_nonjson /\ c.creds_known = "no")

\* C2 as claimed: the fallback is requested only for kind "data" after a
\* re-login and retry answered non-JSON; every other unretried non-JSON
\* answer (kind scan or status, or no credentials known) ends the call
\* with the unexpected-response-type error and no fallback request.
C2_FallbackOnlyAfterRetry ==
    \A t \in Fetching :
        LET c == call[t]
        IN  /\ c.fallbacks > 0 => (c.kind = "data" /\ c.retry_nonjson)
            /\ (c.pc = "done" /\ NonJsonUnretried(c)
                   /\ (c.kind # "data" \/ c.creds_known = "no")) =>
                   (c.result = "UnexpectedResponseType" /\ c.fallbacks = 0)

\* C2 as amended: the fallback is requested only for kind "data" after a
\* non-JSON answer that is not retried: the answer to the retry that
\* followed a re-login, or the first answer when no credentials are known;
\* for kind scan or status such an answer ends the call with the
\* unexpected-response-type error and no fallback request.
C2_FallbackOnlyForData ==
    \A t \in Fetching :
        LET c == call[t]
        IN  /\ c.fallbacks > 0 => (c.kind = "data" /\ NonJsonUnretried(c))
            /\ (c.pc = "done" /\ NonJsonUnretried(c) /\ c.kind # "data") =>
                   (c.result = "UnexpectedResponseType" /\ c.fallbacks = 0)

\* C2 witness: a call on "data" without known credentials went to the
\* fallback, while a call on "scan" whose retry was answered non-JSON
\* ended in the error.
C2_Witness ==
    \E t1, t2 \in Fetching :
        /\ call[t1].kind = "data"
        /\ call[t1].creds_known = "no"
        /\ call[t1].fallbacks = 1
        /\ call[t2].kind = "scan"
        /\ call[t2].retry_nonjson
        /\ call[t2].pc = "done"

\* C3: at most one login POST is in flight at a time, and it belongs to the
\* holder of the lock; a task whose GET is in flight does not hold the
\* lock, so GETs are not serialized by it.
C3_OneLoginInFlight ==
    /\ Cardinality({t \in Tasks : call[t].pc = "post"}) <= 1
    /\ \A t \in Tasks : call[t].pc = "post" => lock_owner = t
    /\ \A t \in Tasks : call[t].pc \in {"get", "fallback"} => lock_owner # t

\* C3 witness: two fetches were answered non-JSON and both log in again:
\* one has its POST in flight, the other waits for the lock.
C3_Witness ==
    \E t1, t2 \in Fetching :
        /\ call[t1].pc = "post"
        /\ call[t2].pc = "lock_wait"
        /\ lock_waiters = <<t2>>

\* The step ends the login POST of task t, and login returned.
LoginReturned(t) ==
    /\ call[t].pc = "post"
    /\ call'[t].pc # "post"
    /\ IF call[t].op = "login" THEN call'[t].result = "data" ELSE call'[t].pc = "get"

\* C24: a login that returns was answered with status 200 and a JSON
\* content type, stores the username and password it was given and hands
\* the decoded body to its caller; a login that ends in any other way
\* (status not 200, content type not JSON, no answer, a body that does not
\* decode) raises and leaves the stored credentials as they were.  Nothing
\* but a returning login or the construction of the client changes them.
C24_LoginStoresOnSuccessOnly ==
    [][/\ \A t \in Tasks :
              (call[t].pc = "post" /\ call'[t].pc # "post") =>
                  IF LoginReturned(t)
                  THEN /\ username' = call[t].user
                       /\ password' = call[t].pass
                       /\ call[t].op = "login" =>
                              /\ call'[t].ret.status = 200
                              /\ call'[t].ret.json
                              /\ call'[t].ret.decodes
                  ELSE /\ UNCHANGED <<username, password>>
                       /\ call'[t].pc = "done"
                       /\ call'[t].result \in {"ClientError", "LoginStatusError",
                                               "LoginTypeError", "DecodeError"}
       /\ <<username, password>>' # <<username, password>> =>
              \/ ~client_created
              \/ \E t \in Tasks : LoginReturned(t)]_vars

\* C24 witness: one login returned the body of a 200 JSON answer and its
\* arguments are the stored credentials; another login was refused for
\* its status.
C24_Witness ==
    \E t1, t2 \in Tasks :
        /\ call[t1].op = "login" /\ call[t1].pc = "done" /\ call[t1].result = "data"
        /\ call[t1].ret = Response(200, TRUE, TRUE)
        /\ call[t2].op = "login" /\ call[t2].pc = "done"
        /\ call[t2].result = "LoginStatusError"
        /\ username = call[t1].user /\ password = call[t1].pass

\* C29: every body get_data_instant returns comes from a response with
\* status 200 and a JSON content type, whether it was the answer to the
\* first GET, to the retry or to the fallback.  _fetch_fallback does not
\* look at the status, so this is violated.
C29_ReturnedFrom200Json ==
    \A t \in Fetching :
        (call[t].pc = "done" /\ call[t].result = "data") =>
            (call[t].ret.status = 200 /\ call[t].ret.json)

====
